---------------------------- MODULE Spec2Model ----------------------------
(***************************************************************************)
(* A model of backend.core.cache.SWRCache (src/core/cache.py) and of the   *)
(* route handlers of src/api/moderation.py that use one module-level       *)
(* instance of it in front of CommentService                               *)
(* (src/services/comment_service.py).                                      *)
(*                                                                         *)
(* Spec   : one SWRCache instance driven by arbitrary complete calls of    *)
(*          get / set / clear while time.time() advances.                  *)
(* SpecH  : the handlers get_comments_for_moderation and moderate_comment  *)
(*          as asyncio tasks that interleave at their await points, on the *)
(*          module's cache instance and its CommentService.                *)
(* SpecW  : the read handler get_widget_config of src/api/widget.py on    *)
(*          that module's cache instance.                                  *)
(* SpecT  : two threads that run the statements of set on one instance     *)
(*          without a lock.                                                *)
(* SpecI  : complete get / set calls on two module-level instances.        *)
(* SpecC  : SpecH with the clear() that the specification describes in     *)
(*          place of the missing method.                                   *)
(* SpecM  : complete calls of CommentService.approve_comment,              *)
(*          reject_comment and delete_comment.                             *)
(* SpecG  : the read handler get_comments of src/api/comments.py on that   *)
(*          module's cache instance and NoCodeBackendService.              *)
(* SpecR  : requests passing through RateLimitMiddleware                   *)
(*          (src/core/middleware.py).                                      *)
(***************************************************************************)
EXTENDS Integers, Sequences, FiniteSets, TLC

(***************************************************************************)
(* Bounds of the model.                                                    *)
(***************************************************************************)
\* time.time() is read as an integer clock 0..MaxTime
MaxTime == 2
\* the constructor's ttl is drawn from 1..MaxTtl
MaxTtl == 2
\* the constructor's max_size is drawn from 0..MaxCap
MaxCap == 2
\* the rate limiter's requests_per_window is drawn from 0..MaxRequests
MaxRequests == 2
\* the rate limiter's window_seconds is drawn from 1..MaxWindow
MaxWindow == 2

\* keys and values passed to get / set
Keys == {"A", "B", "C"}
Values == {"v1", "v2"}

\* Optional[...]: None is the empty tuple, a present value a 1-tuple
None == <<>>
Some(x) == <<x>>

VARIABLES
    cache,      \* self.cache : key -> (value, timestamp)
    order,      \* self.order : list of keys, front = next eviction victim
    ttl,        \* self.ttl
    max_size,   \* self.max_size
    now,        \* the value time.time() returns
    call,       \* the last call made on the instance: [op, key, value]
    ret,        \* what that call returned (None for set)
    raised,     \* the exception that call raised, or "none"
    hit,        \* the outcome of that call's test `key in self.cache`
    found,      \* get's locals (value, timestamp) when the key was in self.cache; for a set, the entry it evicted
    oldest,     \* set's local `oldest` when it evicted
    mock_comments,  \* CommentService._mock_comments : id -> is_approved
    req,        \* the handler tasks: where each is suspended, and its locals
    resp,       \* the last response a handler produced
    recent,     \* history: the keys of self.cache in the order of their last successful access
    set_at,     \* history: for the keys of self.cache, the clock value of their last set
    last_value, \* history: for the keys of self.cache, the value passed to their last set
    thr,        \* the threads inside set: the line each is at, and its locals
    interleaved, \* history: a thread ran a line while another was inside set
    heap,       \* the dict and list objects of the module-level instances
    inst,       \* the module-level instances: their attributes
    callee,     \* the module-level instance the last call was made on
    did,        \* history: what the last request of a read handler did
    raced,      \* history: the last step was the set of a read handler that found its key stored again since its miss
    comment_update_store,   \* src/api/comments.py: comment_update_store
    requests_per_window,    \* RateLimitMiddleware: self.requests_per_window
    window_seconds,         \* RateLimitMiddleware: self.window_seconds
    requests,   \* RateLimitMiddleware: self.requests, IP -> list of timestamps
    admitted,   \* history: IP -> the clock values of all requests passed on
    limited     \* the last dispatch: its IP and its status code

cacheVars == <<cache, order, ttl, max_size>>
obsVars == <<call, ret, raised, hit, found, oldest, recent, set_at, last_value>>
svcVars == <<mock_comments, req, resp>>
thrVars == <<thr, interleaved>>
instVars == <<heap, inst, callee>>
comVars == <<did, raced, comment_update_store>>
rlVars == <<requests_per_window, window_seconds, requests, admitted, limited>>
restVars == <<comVars, rlVars>>
vars == <<cache, order, ttl, max_size, now, call, ret, raised, hit, found, oldest,
          recent, set_at, last_value, mock_comments, req, resp, thr, interleaved, heap, inst, callee,
          did, raced, comment_update_store, requests_per_window, window_seconds, requests,
          admitted, limited>>

(***************************************************************************)
(* Python's dict and list operations used by SWRCache.                     *)
(***************************************************************************)
EmptyDict == [x \in {} |-> None]

Entry(value, timestamp) == [value |-> value, timestamp |-> timestamp]

\* del d[key]
DictDel(d, key) == [x \in (DOMAIN d) \ {key} |-> d[x]]

\* d[key] = e
DictPut(d, key, e) == [x \in (DOMAIN d) \cup {key} |-> IF x = key THEN e ELSE d[x]]

\* key in list
Contains(l, key) == \E i \in 1..Len(l) : l[i] = key

\* number of occurrences of key in the list
Count(l, key) == Cardinality({i \in 1..Len(l) : l[i] = key})

\* the keys of the list
Elems(l) == {l[i] : i \in 1..Len(l)}

\* list.remove(key): drops the first occurrence (the caller has checked that
\* there is one; without one Python raises ValueError)
ListRemove(l, key) ==
    LET first == CHOOSE i \in 1..Len(l) :
                     l[i] = key /\ \A j \in 1..(i - 1) : l[j] # key
    IN  [i \in 1..(Len(l) - 1) |-> IF i < first THEN l[i] ELSE l[i + 1]]

\* list.pop(0): the list without its front element
ListPopFront(l) == Tail(l)

\* the element list.pop(0) returns
ListFront(l) == Head(l)

(***************************************************************************)
(* SWRCache.get                                                            *)
(***************************************************************************)
\* variant of line 20 with the boundary age == ttl still counted as fresh
IsFreshInclusive(timestamp, t) == t - timestamp <= ttl

\* line 20: time.time() - timestamp < self.ttl
IsFresh(timestamp, t) == t - timestamp < ttl

\* variant of lines 22-23 without the remove: the key is appended again
MoveToEndDup(l, key) == Append(l, key)

\* variant of lines 22-23 that leaves the recency order as it is
MoveToEndNoop(l, key) == l

\* lines 22-23: self.order.remove(key); self.order.append(key)
MoveToEnd(l, key) == Append(ListRemove(l, key), key)

\* variant of lines 27-28 that empties the instance when it finds an expired
\* entry
PurgeExpiredFlushes(c, o, key) == [cache |-> EmptyDict, order |-> <<>>, raised |-> "none"]

\* variant of lines 27-28 that only hides the expired entry
PurgeExpiredHidden(c, o, key) == [cache |-> c, order |-> o, raised |-> "none"]

\* lines 27-28: del self.cache[key]; self.order.remove(key).  The del has
\* happened when remove raises.
PurgeExpired(c, o, key) ==
    IF Contains(o, key)
    THEN [cache |-> DictDel(c, key), order |-> ListRemove(o, key), raised |-> "none"]
    ELSE [cache |-> DictDel(c, key), order |-> o, raised |-> "ValueError"]

\* variant of get with a sliding ttl: a hit stores the entry again with the
\* clock value of the hit
get_result_sliding(c, o, key, t) ==
    IF key \in DOMAIN c /\ IsFresh(c[key].timestamp, t) /\ Contains(o, key)
    THEN [cache |-> DictPut(c, key, Entry(c[key].value, t)), order |-> MoveToEnd(o, key),
          ret |-> Some(c[key].value), raised |-> "none", found |-> Some(c[key])]
    ELSE IF key \in DOMAIN c /\ ~IsFresh(c[key].timestamp, t) /\ Contains(o, key)
    THEN [cache |-> DictDel(c, key), order |-> ListRemove(o, key),
          ret |-> None, raised |-> "none", found |-> Some(c[key])]
    ELSE [cache |-> c, order |-> o, ret |-> None, raised |-> "none", found |-> None]

\* variant of get without the test of line 18: self.cache[key] raises KeyError
\* for a key that is not in the mapping
get_result_unguarded(c, o, key, t) ==
    IF key \notin DOMAIN c
    THEN [cache |-> c, order |-> o, ret |-> None, raised |-> "KeyError", found |-> None]
    ELSE IF IsFresh(c[key].timestamp, t) /\ Contains(o, key)
    THEN [cache |-> c, order |-> MoveToEnd(o, key),
          ret |-> Some(c[key].value), raised |-> "none", found |-> Some(c[key])]
    ELSE IF Contains(o, key)
    THEN [cache |-> DictDel(c, key), order |-> ListRemove(o, key),
          ret |-> None, raised |-> "none", found |-> Some(c[key])]
    ELSE [cache |-> c, order |-> o, ret |-> None, raised |-> "ValueError",
          found |-> Some(c[key])]

\* the whole of get(key) at clock value t on mapping c and list o
get_result(c, o, key, t) ==
    IF key \in DOMAIN c
    THEN LET e == c[key] IN
         IF IsFresh(e.timestamp, t)
         THEN IF Contains(o, key)
              THEN [cache |-> c, order |-> MoveToEnd(o, key),
                    ret |-> Some(e.value), raised |-> "none", found |-> Some(e)]
              ELSE [cache |-> c, order |-> o,
                    ret |-> None, raised |-> "ValueError", found |-> Some(e)]
         ELSE LET p == PurgeExpired(c, o, key) IN
              [cache |-> p.cache, order |-> p.order,
               ret |-> None, raised |-> p.raised, found |-> Some(e)]
    ELSE [cache |-> c, order |-> o, ret |-> None, raised |-> "none", found |-> None]

(***************************************************************************)
(* SWRCache.set                                                            *)
(***************************************************************************)
\* variant of line 34 with > for >=
AtCapacityOffByOne(c) == Cardinality(DOMAIN c) > max_size

\* variant of line 34 that counts the entries that are still fresh
AtCapacityFreshOnly(c) ==
    Cardinality({k \in DOMAIN c : IsFresh(c[k].timestamp, now)}) >= max_size

\* line 34: len(self.cache) >= self.max_size
AtCapacity(c) == Cardinality(DOMAIN c) >= max_size

\* variant of lines 36-37 with pop() for pop(0): the newest key is evicted
EvictNewest(c, o) ==
    [cache |-> DictDel(c, o[Len(o)]), order |-> SubSeq(o, 1, Len(o) - 1),
     oldest |-> Some(o[Len(o)])]

\* variant of lines 36-37 without the del: the key leaves the list only
EvictFromOrderOnly(c, o) ==
    [cache |-> c, order |-> ListPopFront(o), oldest |-> Some(ListFront(o))]

\* lines 36-37: oldest = self.order.pop(0); del self.cache[oldest]
EvictOldest(c, o) ==
    [cache |-> DictDel(c, ListFront(o)), order |-> ListPopFront(o),
     oldest |-> Some(ListFront(o))]

\* variant of lines 38-39 that keeps the stored value of an existing key
StoreKeepsOld(c, o, key, value, t) ==
    [cache |-> DictPut(c, key, Entry(IF key \in DOMAIN c THEN c[key].value ELSE value, t)),
     order |-> Append(o, key)]

\* variant of lines 38-39 without the append
StoreNoAppend(c, o, key, value, t) ==
    [cache |-> DictPut(c, key, Entry(value, t)), order |-> o]

\* variant of lines 38-39 with insert(0, key) for append(key)
StoreAtFront(c, o, key, value, t) ==
    [cache |-> DictPut(c, key, Entry(value, t)), order |-> <<key>> \o o]

\* lines 38-39: self.cache[key] = (value, time.time()); self.order.append(key)
Store(c, o, key, value, t) ==
    [cache |-> DictPut(c, key, Entry(value, t)), order |-> Append(o, key)]

\* variant of set that tests the capacity before it tests the key: a full
\* cache evicts its oldest key also when the key is already stored
set_result_capacity_first(c, o, key, value, t) ==
    IF AtCapacity(c) /\ o # <<>>
    THEN LET ev == EvictOldest(c, o)
             rest == IF Contains(ev.order, key) THEN ListRemove(ev.order, key) ELSE ev.order
             s == Store(ev.cache, rest, key, value, t)
         IN  [cache |-> s.cache, order |-> s.order, raised |-> "none", oldest |-> ev.oldest]
    ELSE LET rest == IF Contains(o, key) THEN ListRemove(o, key) ELSE o
             s == Store(c, rest, key, value, t)
         IN  [cache |-> s.cache, order |-> s.order, raised |-> "none", oldest |-> None]

\* the whole of set(key, value) at clock value t on mapping c and list o
set_result(c, o, key, value, t) ==
    IF key \in DOMAIN c
    THEN IF Contains(o, key)
         THEN LET s == Store(c, ListRemove(o, key), key, value, t) IN
              [cache |-> s.cache, order |-> s.order, raised |-> "none", oldest |-> None]
         ELSE [cache |-> c, order |-> o, raised |-> "ValueError", oldest |-> None]
    ELSE IF AtCapacity(c)
         THEN IF o = <<>>
              THEN [cache |-> c, order |-> o, raised |-> "IndexError", oldest |-> None]
              ELSE LET ev == EvictOldest(c, o)
                       s == Store(ev.cache, ev.order, key, value, t)
                   IN  [cache |-> s.cache, order |-> s.order, raised |-> "none",
                        oldest |-> ev.oldest]
         ELSE LET s == Store(c, o, key, value, t) IN
              [cache |-> s.cache, order |-> s.order, raised |-> "none", oldest |-> None]

(***************************************************************************)
(* cache.clear(): SWRCache defines __init__, get and set only, so the      *)
(* attribute lookup raises AttributeError and the instance is untouched.   *)
(***************************************************************************)
clear_result(c, o) == [cache |-> c, order |-> o, raised |-> "AttributeError"]

(***************************************************************************)
(* CommentService (src/services/comment_service.py).  _mock_comments is a  *)
(* list of dicts in ascending id order (nothing in the moderation module   *)
(* appends to it); it is held as the function id -> is_approved of the     *)
(* comments still in the list.                                             *)
(***************************************************************************)
\* is_approved: 0=pending, 1=approved, 2=rejected
PENDING == 0
APPROVED == 1
REJECTED == 2

\* _initialize_mock_data: comments 1, 2 pending and 3, 4 approved
InitialComments == [i \in 1..4 |-> IF i <= 2 THEN PENDING ELSE APPROVED]

\* the ids of S in list order
RECURSIVE Ascending(_)
Ascending(S) ==
    IF S = {} THEN <<>>
    ELSE LET m == CHOOSE x \in S : \A y \in S : x <= y
         IN  <<m>> \o Ascending(S \ {m})

\* l[offset:offset + limit] for offset, limit >= 0
Slice(l, offset, limit) ==
    SubSeq(l, offset + 1, IF offset + limit < Len(l) THEN offset + limit ELSE Len(l))

\* [c for c in self._mock_comments if c["is_approved"] == state][offset:offset + limit]
CommentsWith(mc, state, limit, offset) ==
    Slice(Ascending({i \in DOMAIN mc : mc[i] = state}), offset, limit)

get_pending_comments(mc, limit, offset) == CommentsWith(mc, PENDING, limit, offset)
get_approved_comments(mc, limit, offset) == CommentsWith(mc, APPROVED, limit, offset)
get_rejected_comments(mc, limit, offset) == CommentsWith(mc, REJECTED, limit, offset)

\* variant of approve_comment without the test of is_approved
approve_comment_any(mc, comment_id) ==
    IF comment_id \in DOMAIN mc
    THEN [comments |-> [mc EXCEPT ![comment_id] = APPROVED], success |-> TRUE]
    ELSE [comments |-> mc, success |-> FALSE]

approve_comment(mc, comment_id) ==
    IF comment_id \in DOMAIN mc /\ mc[comment_id] = PENDING
    THEN [comments |-> [mc EXCEPT ![comment_id] = APPROVED], success |-> TRUE]
    ELSE [comments |-> mc, success |-> FALSE]

reject_comment(mc, comment_id) ==
    IF comment_id \in DOMAIN mc /\ mc[comment_id] = PENDING
    THEN [comments |-> [mc EXCEPT ![comment_id] = REJECTED], success |-> TRUE]
    ELSE [comments |-> mc, success |-> FALSE]

delete_comment(mc, comment_id) ==
    IF comment_id \in DOMAIN mc
    THEN [comments |-> [i \in (DOMAIN mc) \ {comment_id} |-> mc[i]], success |-> TRUE]
    ELSE [comments |-> mc, success |-> FALSE]

(***************************************************************************)
(* The handlers of src/api/moderation.py: their pure parts.                *)
(***************************************************************************)
\* the requests the model sends
Tasks == {"t1", "t2"}
Statuses == {None, Some("approved")}
Limits == {50}
Offsets == {0}
CommentIdArgs == {1, 9}
ActionArgs == {"approve", "delete", "ban"}

\* f"{status}" for an Optional[str]
Str(status) == IF status = None THEN "None" ELSE status[1]

\* line 22: f"moderation_comments:{status}:{limit}:{offset}"
cache_key(status, limit, offset) ==
    "moderation_comments:" \o Str(status) \o ":" \o ToString(limit) \o ":" \o ToString(offset)

\* lines 31-39: the service call chosen by the status filter
FetchComments(mc, status, limit, offset) ==
    IF status = Some("pending") THEN get_pending_comments(mc, limit, offset)
    ELSE IF status = Some("approved") THEN get_approved_comments(mc, limit, offset)
    ELSE IF status = Some("rejected") THEN get_rejected_comments(mc, limit, offset)
    ELSE get_pending_comments(mc, limit, offset)

\* lines 41-47: the result dict; its comments are the listed comment objects
ModerationResult(comments, status, limit, offset) ==
    [comments |-> comments, total |-> Len(comments), limit |-> limit,
     offset |-> offset, status |-> IF status = None THEN "pending" ELSE status[1]]

\* lines 110-115: the service call chosen by the action
Moderate(mc, comment_id, action) ==
    IF action = "approve" THEN approve_comment(mc, comment_id)
    ELSE IF action = "reject" THEN reject_comment(mc, comment_id)
    ELSE delete_comment(mc, comment_id)

\* a task that runs no handler
Idle == [pc |-> "idle", status |-> None, limit |-> 0, offset |-> 0,
         comment_id |-> 0, action |-> ""]

\* a get_comments_for_moderation task suspended in its service call
Fetching(status, limit, offset) ==
    [pc |-> "fetching", status |-> status, limit |-> limit, offset |-> offset,
     comment_id |-> 0, action |-> ""]

\* a moderate_comment task suspended in its service call
Moderating(comment_id, action) ==
    [pc |-> "moderating", status |-> None, limit |-> 0, offset |-> 0,
     comment_id |-> comment_id, action |-> action]

\* an HTTP response: the handler, its status code, its body when it is a
\* read result, and whether the handler's service call changed the service
Response(handler, code, body, applied) ==
    [handler |-> handler, code |-> code, body |-> body, applied |-> applied]

(***************************************************************************)
(* Spec: complete calls on one instance.                                   *)
(***************************************************************************)
NoKey == "-"
NoValue == "-"
Call(op, key, value) == [op |-> op, key |-> key, value |-> value]

\* history: key becomes the most recently accessed key
Touch(l, key) == LET Other(x) == x # key IN Append(SelectSeq(l, Other), key)

\* history: the keys of l that mapping c still holds
Present(l, c) == LET Held(x) == x \in DOMAIN c IN SelectSeq(l, Held)

\* history: the records of h for the keys that mapping c still holds
Kept(h, c) == [x \in (DOMAIN h) \cap (DOMAIN c) |-> h[x]]

(***************************************************************************)
(* SWRCache.set line by line, for threads that call it without a lock.     *)
(***************************************************************************)
Threads == {"th1", "th2"}

\* the lines of set a thread can be at, and the lines after the first
Lines == {"l32", "l33", "l34", "l36", "l37", "l38", "l39"}
Inside == Lines \ {"l32"}
Exceptions == {"ValueError", "IndexError", "KeyError"}

\* a thread outside set, and a thread that has entered set(key, value)
NotCalling == [pc |-> "idle", key |-> NoKey, value |-> NoValue, oldest |-> None]
Calling(key, value) == [pc |-> "l32", key |-> key, value |-> value, oldest |-> None]

\* variant of line 36 that reads the front element and leaves it in the list
PopFrontKeeps(l) == l

\* line 36 on the list: self.order.pop(0)
PopFront(l) == ListPopFront(l)

\* one line of set(key, value) run by a thread whose local `oldest` is old,
\* at clock value t on mapping c and list o: the line the thread is at
\* next (or the exception it raised), the mapping, the list and the local
set_line(pc, c, o, key, value, old, t) ==
    CASE pc = "l32" ->
           [pc |-> IF key \in DOMAIN c THEN "l33" ELSE "l34",
            cache |-> c, order |-> o, oldest |-> old]
      [] pc = "l33" ->
           IF Contains(o, key)
           THEN [pc |-> "l38", cache |-> c, order |-> ListRemove(o, key), oldest |-> old]
           ELSE [pc |-> "ValueError", cache |-> c, order |-> o, oldest |-> old]
      [] pc = "l34" ->
           [pc |-> IF AtCapacity(c) THEN "l36" ELSE "l38",
            cache |-> c, order |-> o, oldest |-> old]
      [] pc = "l36" ->
           IF o = <<>>
           THEN [pc |-> "IndexError", cache |-> c, order |-> o, oldest |-> old]
           ELSE [pc |-> "l37", cache |-> c, order |-> PopFront(o),
                 oldest |-> Some(ListFront(o))]
      [] pc = "l37" ->
           IF old[1] \in DOMAIN c
           THEN [pc |-> "l38", cache |-> DictDel(c, old[1]), order |-> o, oldest |-> old]
           ELSE [pc |-> "KeyError", cache |-> c, order |-> o, oldest |-> old]
      [] pc = "l38" ->
           [pc |-> "l39", cache |-> DictPut(c, key, Entry(value, t)), order |-> o,
            oldest |-> old]
      [] pc = "l39" ->
           [pc |-> "done", cache |-> c, order |-> Append(o, key), oldest |-> old]

(***************************************************************************)
(* The module-level instances.  Each module builds its own with            *)
(* SWRCache(ttl=120, max_size=500) at import (src/api/moderation.py:9,     *)
(* src/api/threads.py:9); __init__ gives each instance a new dict and a    *)
(* new list.  heap is the sequence of these objects, an instance holds     *)
(* their positions.                                                        *)
(***************************************************************************)
Instances == {"moderation", "threads"}

\* keys and values of the calls made on the module-level instances
InstKeys == {"A", "B"}
InstValues == {"v1"}

\* variant of __init__ for a class whose dict and list are class attributes:
\* every instance holds the objects of the first one
SWRCache_init_shared(h, t, m) ==
    [heap |-> IF h = <<>> THEN <<EmptyDict, <<>>>> ELSE h,
     self |-> [ttl |-> t, max_size |-> m, cache |-> 1, order |-> 2]]

\* lines 11-15: self.ttl = ttl; self.max_size = max_size; self.cache = {};
\* self.order = []
SWRCache_init(h, t, m) ==
    [heap |-> h \o <<EmptyDict, <<>>>>,
     self |-> [ttl |-> t, max_size |-> m, cache |-> Len(h) + 1, order |-> Len(h) + 2]]

\* the heap and the instances after both modules were imported
Imported(t, m) ==
    LET a == SWRCache_init(<<>>, t, m)
        b == SWRCache_init(a.heap, t, m)
    IN  [heap |-> b.heap,
         inst |-> [i \in Instances |-> IF i = "moderation" THEN a.self ELSE b.self]]

(***************************************************************************)
(* src/api/comments.py: the pure parts of get_comments.  A query parameter *)
(* is a sequence of characters, so that isdigit, int, startswith and the   *)
(* f-string of the key are computed and not assumed.                       *)
(***************************************************************************)
Digits == <<"0", "1", "2", "3", "4", "5", "6", "7", "8", "9">>
ThreadPrefix == <<"t", "h", "r", "e", "a", "d", "_">>

\* the thread_id query parameters the model sends
ThreadIdParams ==
    {None, Some(ThreadPrefix \o <<"1", "2", "3">>), Some(ThreadPrefix \o <<"4", "5", "6">>),
     Some(<<"0", "7">>), Some(<<"a", "b", "c">>)}

\* the task that runs get_comments
CommentsTasks == {"t1"}

\* str.isdigit(), int(str), str.startswith(prefix), and the text of a str
IsDigit(s) == s # <<>> /\ \A i \in 1..Len(s) : \E d \in 1..10 : Digits[d] = s[i]
DigitValue(ch) == (CHOOSE d \in 1..10 : Digits[d] = ch) - 1
RECURSIVE IntOf(_)
IntOf(s) == IF s = <<>> THEN 0 ELSE 10 * IntOf(SubSeq(s, 1, Len(s) - 1)) + DigitValue(s[Len(s)])
StartsWith(s, prefix) == Len(s) >= Len(prefix) /\ SubSeq(s, 1, Len(prefix)) = prefix
RECURSIVE Text(_)
Text(s) == IF s = <<>> THEN "" ELSE s[1] \o Text(Tail(s))

\* line 28: thread_id == "thread_123"
IsMockThread(param) == param = Some(ThreadPrefix \o <<"1", "2", "3">>)

\* lines 66-74: a numeric thread_id becomes an int, a "thread_..." one stays
\* a str, every other one becomes None
NormalisedThreadId(param) ==
    IF param # None /\ param[1] # <<>> /\ IsDigit(param[1])
    THEN Some([int |-> IntOf(param[1])])
    ELSE IF param # None /\ param[1] # <<>> /\ StartsWith(param[1], ThreadPrefix)
    THEN Some([str |-> param[1]])
    ELSE None

\* f"{thread_id}" of a normalised thread_id
ThreadIdText(tid) ==
    IF tid = None THEN "None"
    ELSE IF "int" \in DOMAIN tid[1] THEN ToString(tid[1].int)
    ELSE Text(tid[1].str)

\* line 84: the truth value of a normalised thread_id (0 and None are false)
ThreadIdTruthy(tid) ==
    /\ tid # None
    /\ IF "int" \in DOMAIN tid[1] THEN tid[1].int # 0 ELSE tid[1].str # <<>>

\* line 76: f"comments:{thread_id}"
comments_cache_key(tid) == "comments:" \o ThreadIdText(tid)

\* src/services/comment_service.py:17-56: thread_referencia_id and parent_id
\* of the mock comments of a new CommentService
ThreadOfComment == [i \in 1..4 |-> IF i = 3 THEN ThreadPrefix \o <<"4", "5", "6">>
                                             ELSE ThreadPrefix \o <<"1", "2", "3">>]
ParentOfComment == [i \in 1..4 |-> IF i = 4 THEN 1 ELSE 0]

\* CommentService.get_threaded_comments (lines 158-177): the comments of the
\* thread without parent, each with the replies to it
get_threaded_comments(tid) ==
    LET mine == {i \in 1..4 : tid = Some([str |-> ThreadOfComment[i]])}
        Replies(i) == Ascending({j \in mine : ParentOfComment[j] = i})
        roots == Ascending({i \in mine : ParentOfComment[i] = 0})
    IN  [n \in 1..Len(roots) |-> [id |-> roots[n], replies |-> Replies(roots[n])]]

\* src/services/nocodebackend.py:44-51: NoCodeBackendService.get_comments
nocodebackend_get_comments(tid) ==
    [comments |-> get_threaded_comments(tid), thread_id |-> tid]

\* src/services/nocodebackend.py:53-59: NoCodeBackendService.get_all_comments
nocodebackend_get_all_comments == <<>>

\* lines 84-88: the result of the service call chosen by the thread_id
CommentsResult(tid) ==
    IF ThreadIdTruthy(tid) THEN nocodebackend_get_comments(tid)
    ELSE nocodebackend_get_all_comments

\* lines 17-21: comment_update_store at import
InitialStore == [pending_count |-> 0, approved_count |-> 0, last_update |-> None]

\* variant of update_comment_counts that fetches both counts with one call
update_comment_counts_one_call(t) ==
    [store |-> [pending_count |-> Len(nocodebackend_get_all_comments),
                approved_count |-> Len(nocodebackend_get_all_comments),
                last_update |-> Some(t)],
     calls |-> 1]

\* lines 104-121: update_comment_counts at clock value t: the new
\* comment_update_store and the number of calls of the service it makes
update_comment_counts(t) ==
    [store |-> [pending_count |-> Len(nocodebackend_get_all_comments),
                approved_count |-> Len(nocodebackend_get_all_comments),
                last_update |-> Some(t)],
     calls |-> 2]

\* a get_comments task suspended in CommentService.get_threaded_comments
FetchingComments(tid) ==
    [pc |-> "fetching_comments", status |-> None, limit |-> 0, offset |-> 0,
     comment_id |-> 0, action |-> "", thread_id |-> tid]

\* history: what a request of a read handler did: whether cache.get
\* returned a value, the key passed to get and the value get returned, the
\* key and the value passed to set, and the numbers of calls of the backing
\* service before the set and after it
Did(handler, was_hit, got, cached, put, stored, before, after) ==
    [handler |-> handler, hit |-> was_hit, got |-> got, cached |-> cached,
     put |-> put, stored |-> stored, before |-> before, after |-> after]
NothingDone == Did("", FALSE, None, None, None, None, 0, 0)

\* the rate limiter has seen no request
NoDispatch == [ip |-> "", code |-> 0]

(***************************************************************************)
(* RateLimitMiddleware (src/core/middleware.py): its pure parts.  A header *)
(* is a sequence of characters; client addresses are "a" and "b".          *)
(***************************************************************************)
\* the x-forwarded-for headers and the peer addresses of the requests
ForwardedFor == {None, Some(<<>>), Some(<<" ", "a", " ", ",", "b">>)}
Hosts == {"a", "b"}
Requests == [xff : ForwardedFor, host : Hosts]

\* str.split(",")[0]
RECURSIVE FirstField(_)
FirstField(s) ==
    IF s = <<>> \/ s[1] = "," THEN <<>> ELSE <<s[1]>> \o FirstField(Tail(s))

\* str.strip() for blanks
RECURSIVE LStrip(_)
LStrip(s) == IF s # <<>> /\ s[1] = " " THEN LStrip(Tail(s)) ELSE s
RECURSIVE RStrip(_)
RStrip(s) ==
    IF s # <<>> /\ s[Len(s)] = " " THEN RStrip(SubSeq(s, 1, Len(s) - 1)) ELSE s
Strip(s) == RStrip(LStrip(s))

\* lines 53-58: _get_client_ip
get_client_ip(request) ==
    IF request.xff # None /\ request.xff[1] # <<>>
    THEN Text(Strip(FirstField(request.xff[1])))
    ELSE request.host

\* self.requests[client_ip] of the defaultdict(list)
RequestsOf(r, ip) == IF ip \in DOMAIN r THEN r[ip] ELSE <<>>

\* variant of lines 34-37 that keeps no timestamp
CleanDropsAll(l, t) == <<>>

\* lines 34-37: the timestamps of l younger than window_seconds at time t
Clean(l, t) ==
    LET Young(req_time) == t - req_time < window_seconds IN SelectSeq(l, Young)

\* SWRCache(ttl, max_size) for ttl in 1..MaxTtl and max_size in Sizes, before
\* any call and any request; the other modules as they are after import
Built(Sizes) ==
    /\ cache = EmptyDict
    /\ order = <<>>
    /\ ttl \in 1..MaxTtl
    /\ max_size \in Sizes
    /\ now = 0
    /\ call = Call("init", NoKey, NoValue)
    /\ ret = None
    /\ raised = "none"
    /\ hit = FALSE
    /\ found = None
    /\ oldest = None
    /\ recent = <<>>
    /\ set_at = EmptyDict
    /\ last_value = EmptyDict
    /\ mock_comments = InitialComments
    /\ req = [t \in Tasks |-> Idle]
    /\ resp = Response("", 0, None, FALSE)
    /\ thr = [t \in Threads |-> NotCalling]
    /\ interleaved = FALSE
    /\ heap = Imported(ttl, max_size).heap
    /\ inst = Imported(ttl, max_size).inst
    /\ callee = "moderation"
    /\ did = NothingDone
    /\ raced = FALSE
    /\ comment_update_store = InitialStore

\* RateLimitMiddleware(app, rpw, w), lines 23-27 of src/core/middleware.py,
\* before any request
RateLimitMiddleware_init(rpw, w) ==
    /\ requests_per_window = rpw
    /\ window_seconds = w
    /\ requests = EmptyDict
    /\ admitted = EmptyDict
    /\ limited = NoDispatch

\* the same with a rate limiter of one request per clock value in front
Constructed(Sizes) == Built(Sizes) /\ RateLimitMiddleware_init(1, 1)

Init == Constructed(0..MaxCap)

get(key) ==
    LET r == get_result(cache, order, key, now) IN
    /\ cache' = r.cache
    /\ order' = r.order
    /\ call' = Call("get", key, NoValue)
    /\ ret' = r.ret
    /\ raised' = r.raised
    /\ hit' = (key \in DOMAIN cache)
    /\ found' = r.found
    /\ oldest' = None
    /\ recent' = Present(IF r.ret # None THEN Touch(recent, key) ELSE recent, r.cache)
    /\ set_at' = Kept(set_at, r.cache)
    /\ last_value' = Kept(last_value, r.cache)
    /\ UNCHANGED <<ttl, max_size, now>>
    /\ UNCHANGED <<svcVars, thrVars, instVars, restVars>>

\* variant of set that, after an eviction, raises self.max_size by one
set_growing(key, value) ==
    LET r == set_result(cache, order, key, value, now) IN
    /\ cache' = r.cache
    /\ order' = r.order
    /\ call' = Call("set", key, value)
    /\ ret' = None
    /\ raised' = r.raised
    /\ hit' = (key \in DOMAIN cache)
    /\ found' = IF r.oldest = None THEN None ELSE Some(cache[r.oldest[1]])
    /\ oldest' = r.oldest
    /\ recent' = Present(IF r.raised = "none" THEN Touch(recent, key) ELSE recent, r.cache)
    /\ set_at' = Kept(IF r.raised = "none" THEN DictPut(set_at, key, now) ELSE set_at, r.cache)
    /\ last_value' = Kept(IF r.raised = "none" THEN DictPut(last_value, key, value) ELSE last_value, r.cache)
    /\ max_size' = IF r.oldest # None THEN max_size + 1 ELSE max_size
    /\ UNCHANGED <<ttl, now>>
    /\ UNCHANGED <<svcVars, thrVars, instVars, restVars>>

set(key, value) ==
    LET r == set_result(cache, order, key, value, now) IN
    /\ cache' = r.cache
    /\ order' = r.order
    /\ call' = Call("set", key, value)
    /\ ret' = None
    /\ raised' = r.raised
    /\ hit' = (key \in DOMAIN cache)
    /\ found' = IF r.oldest = None THEN None ELSE Some(cache[r.oldest[1]])
    /\ oldest' = r.oldest
    /\ recent' = Present(IF r.raised = "none" THEN Touch(recent, key) ELSE recent, r.cache)
    /\ set_at' = Kept(IF r.raised = "none" THEN DictPut(set_at, key, now) ELSE set_at, r.cache)
    /\ last_value' = Kept(IF r.raised = "none" THEN DictPut(last_value, key, value) ELSE last_value, r.cache)
    /\ UNCHANGED <<ttl, max_size, now>>
    /\ UNCHANGED <<svcVars, thrVars, instVars, restVars>>

clear ==
    LET r == clear_result(cache, order) IN
    /\ cache' = r.cache
    /\ order' = r.order
    /\ call' = Call("clear", NoKey, NoValue)
    /\ ret' = None
    /\ raised' = r.raised
    /\ hit' = FALSE
    /\ found' = None
    /\ oldest' = None
    /\ recent' = Present(recent, r.cache)
    /\ set_at' = Kept(set_at, r.cache)
    /\ last_value' = Kept(last_value, r.cache)
    /\ UNCHANGED <<ttl, max_size, now>>
    /\ UNCHANGED <<svcVars, thrVars, instVars, restVars>>

\* variant of the clock with a background purge: when time passes, the
\* entries that are expired at the new clock value are removed
TickPurging ==
    LET kept == {k \in DOMAIN cache : now + 1 - cache[k].timestamp < ttl}
        c == [k \in kept |-> cache[k]]
    IN  /\ now < MaxTime
        /\ now' = now + 1
        /\ cache' = c
        /\ order' = Present(order, c)
        /\ call' = Call("tick", NoKey, NoValue)
        /\ ret' = None
        /\ raised' = "none"
        /\ hit' = FALSE
        /\ found' = None
        /\ oldest' = None
        /\ recent' = Present(recent, c)
        /\ set_at' = Kept(set_at, c)
        /\ last_value' = Kept(last_value, c)
        /\ UNCHANGED <<ttl, max_size>>
        /\ UNCHANGED <<svcVars, thrVars, instVars, restVars>>

\* time passes between calls
Tick ==
    /\ now < MaxTime
    /\ now' = now + 1
    /\ call' = Call("tick", NoKey, NoValue)
    /\ ret' = None
    /\ raised' = "none"
    /\ hit' = FALSE
    /\ found' = None
    /\ oldest' = None
    /\ UNCHANGED <<recent, set_at, last_value>>
    /\ UNCHANGED cacheVars
    /\ UNCHANGED <<svcVars, thrVars, instVars, restVars>>

Next ==
    \/ \E key \in Keys : get(key)
    \/ \E key \in Keys, value \in Values : set(key, value)
    \/ clear
    \/ Tick

Spec == Init /\ [][Next]_vars


(***************************************************************************)
(* SpecH: the moderation module.  cache = SWRCache(ttl=120, max_size=500)  *)
(* and comment_service = CommentService() are created at import; the       *)
(* model scales ttl and max_size down to its clock and its key set.  A     *)
(* handler runs without interruption between two awaits; the only await of *)
(* each handler is the asyncio.sleep at the top of its service method, so  *)
(* the service reads or changes _mock_comments in the step that resumes    *)
(* the handler.  What a handler did is read from resp; call, ret, raised,  *)
(* hit, found and oldest record direct calls only and stay as constructed. *)
(***************************************************************************)
InitH == Constructed(1..MaxCap)

\* lines 22-27 and the entry into the service call of lines 31-39
get_comments_for_moderation(t, status, limit, offset) ==
    LET key == cache_key(status, limit, offset)
        g == get_result(cache, order, key, now)
    IN  /\ req[t].pc = "idle"
        /\ cache' = g.cache
        /\ order' = g.order
        /\ IF g.raised # "none"
           THEN /\ resp' = Response("get_comments_for_moderation", 500, None, FALSE)
                /\ UNCHANGED req
           ELSE IF g.ret # None
           THEN /\ resp' = Response("get_comments_for_moderation", 200, g.ret, FALSE)
                /\ UNCHANGED req
           ELSE /\ req' = [req EXCEPT ![t] = Fetching(status, limit, offset)]
                /\ UNCHANGED resp
        /\ raced' = FALSE
        /\ UNCHANGED <<ttl, max_size, now, obsVars, mock_comments, thrVars, instVars, did,
                       comment_update_store, rlVars>>

\* lines 31-54 after the service's sleep: the service reads its list, the
\* handler builds the result, stores it and returns it
get_comments_for_moderation_resume(t) ==
    LET r == req[t]
        key == cache_key(r.status, r.limit, r.offset)
        comments == FetchComments(mock_comments, r.status, r.limit, r.offset)
        result == ModerationResult(comments, r.status, r.limit, r.offset)
        s == set_result(cache, order, key, result, now)
    IN  /\ r.pc = "fetching"
        /\ cache' = s.cache
        /\ order' = s.order
        /\ resp' = IF s.raised # "none"
                   THEN Response("get_comments_for_moderation", 500, None, FALSE)
                   ELSE Response("get_comments_for_moderation", 200, Some(result), FALSE)
        /\ req' = [req EXCEPT ![t] = Idle]
        /\ raced' = (key \in DOMAIN cache)
        /\ UNCHANGED <<ttl, max_size, now, obsVars, mock_comments, thrVars, instVars, did,
                       comment_update_store, rlVars>>

\* lines 106-107 and the entry into the service call of lines 110-115
moderate_comment(t, comment_id, action) ==
    /\ req[t].pc = "idle"
    /\ IF action \notin {"approve", "reject", "delete"}
       THEN /\ resp' = Response("moderate_comment", 400, None, FALSE)
            /\ UNCHANGED req
       ELSE /\ req' = [req EXCEPT ![t] = Moderating(comment_id, action)]
            /\ UNCHANGED resp
    /\ raced' = FALSE
    /\ UNCHANGED <<cacheVars, now, obsVars, mock_comments, thrVars, instVars, did,
                   comment_update_store, rlVars>>

\* lines 110-132 after the service's sleep: the service changes its list,
\* then the handler answers 404, or calls cache.clear() and answers; an
\* exception of cache.clear() is caught by `except Exception` (line 131)
moderate_comment_resume(t) ==
    LET r == req[t]
        m == Moderate(mock_comments, r.comment_id, r.action)
        c == clear_result(cache, order)
    IN  /\ r.pc = "moderating"
        /\ mock_comments' = m.comments
        /\ req' = [req EXCEPT ![t] = Idle]
        /\ IF ~m.success
           THEN /\ resp' = Response("moderate_comment", 404, None, FALSE)
                /\ UNCHANGED <<cache, order>>
           ELSE /\ cache' = c.cache
                /\ order' = c.order
                /\ resp' = IF c.raised # "none"
                           THEN Response("moderate_comment", 500, None, TRUE)
                           ELSE Response("moderate_comment", 200, None, TRUE)
        /\ raced' = FALSE
        /\ UNCHANGED <<ttl, max_size, now, obsVars, thrVars, instVars, did,
                       comment_update_store, rlVars>>

\* time passes between two steps of the event loop
TickH ==
    /\ now < MaxTime
    /\ now' = now + 1
    /\ raced' = FALSE
    /\ UNCHANGED <<cacheVars, obsVars, svcVars, thrVars, instVars, did,
                   comment_update_store, rlVars>>

NextH ==
    \/ \E t \in Tasks, status \in Statuses, limit \in Limits, offset \in Offsets :
          get_comments_for_moderation(t, status, limit, offset)
    \/ \E t \in Tasks : get_comments_for_moderation_resume(t)
    \/ \E t \in Tasks, comment_id \in CommentIdArgs, action \in ActionArgs :
          moderate_comment(t, comment_id, action)
    \/ \E t \in Tasks : moderate_comment_resume(t)
    \/ TickH

SpecH == InitH /\ [][NextH]_vars

(***************************************************************************)
(* SpecC: the moderation handlers over a cache whose clear() is the one    *)
(* the specification describes, "Removes all entries and resets recency    *)
(* order to empty", in place of the missing method.                        *)
(***************************************************************************)
\* variant of the specified clear() that returns without removing anything
clear_keeps_entries(c, o) == [cache |-> c, order |-> o, raised |-> "none"]

\* clear() as the specification defines it
clear_as_specified(c, o) == [cache |-> EmptyDict, order |-> <<>>, raised |-> "none"]

\* moderate_comment, lines 110-132 after the service's sleep, with the
\* specified clear() at line 121
moderate_comment_resume_clearing(t) ==
    LET r == req[t]
        m == Moderate(mock_comments, r.comment_id, r.action)
        c == clear_as_specified(cache, order)
    IN  /\ r.pc = "moderating"
        /\ mock_comments' = m.comments
        /\ req' = [req EXCEPT ![t] = Idle]
        /\ IF ~m.success
           THEN /\ resp' = Response("moderate_comment", 404, None, FALSE)
                /\ UNCHANGED <<cache, order>>
           ELSE /\ cache' = c.cache
                /\ order' = c.order
                /\ resp' = IF c.raised # "none"
                           THEN Response("moderate_comment", 500, None, TRUE)
                           ELSE Response("moderate_comment", 200, None, TRUE)
        /\ raced' = FALSE
        /\ UNCHANGED <<ttl, max_size, now, obsVars, thrVars, instVars, did,
                       comment_update_store, rlVars>>

NextC ==
    \/ \E t \in Tasks, status \in Statuses, limit \in Limits, offset \in Offsets :
          get_comments_for_moderation(t, status, limit, offset)
    \/ \E t \in Tasks : get_comments_for_moderation_resume(t)
    \/ \E t \in Tasks, comment_id \in CommentIdArgs, action \in ActionArgs :
          moderate_comment(t, comment_id, action)
    \/ \E t \in Tasks : moderate_comment_resume_clearing(t)
    \/ TickH

SpecC == InitH /\ [][NextC]_vars

(***************************************************************************)
(* SpecW: the widget module (src/api/widget.py).  cache =                  *)
(* SWRCache(ttl=300, max_size=100) is created at import; the model scales  *)
(* it down as in SpecH.  get_widget_config awaits nothing, so one request  *)
(* is one step.                                                            *)
(***************************************************************************)
\* the thread_id query parameters the model sends
ThreadIdArgs == {None, Some(""), Some("default"), Some("t1")}

\* the truth value of an Optional[str]: None and "" are false
Truthy(s) == s # None /\ s[1] # ""

\* line 35: f"widget_config:{thread_id or 'default'}"
widget_cache_key(thread_id) ==
    "widget_config:" \o (IF Truthy(thread_id) THEN thread_id[1] ELSE "default")

\* lines 44-48: a copy of DEFAULT_WIDGET_CONFIG, with the key "thread_id"
\* added when thread_id is true
WidgetConfig(thread_id) ==
    [base |-> "DEFAULT_WIDGET_CONFIG",
     thread_id |-> IF Truthy(thread_id) THEN thread_id ELSE None]

InitW == Constructed(1..MaxCap)

\* lines 35-51; an exception of the cache leaves the handler and is answered
\* with 500
get_widget_config(thread_id) ==
    LET key == widget_cache_key(thread_id)
        g == get_result(cache, order, key, now)
        config == WidgetConfig(thread_id)
        s == set_result(g.cache, g.order, key, config, now)
    IN  /\ IF g.raised # "none"
           THEN /\ cache' = g.cache
                /\ order' = g.order
                /\ resp' = Response("get_widget_config", 500, None, FALSE)
           ELSE IF g.ret # None
           THEN /\ cache' = g.cache
                /\ order' = g.order
                /\ resp' = Response("get_widget_config", 200, g.ret, FALSE)
           ELSE /\ cache' = s.cache
                /\ order' = s.order
                /\ resp' = IF s.raised # "none"
                           THEN Response("get_widget_config", 500, None, FALSE)
                           ELSE Response("get_widget_config", 200, Some(config), FALSE)
        /\ UNCHANGED <<ttl, max_size, now, obsVars, mock_comments, req, thrVars, instVars, restVars>>

NextW ==
    \/ \E thread_id \in ThreadIdArgs : get_widget_config(thread_id)
    \/ TickH

SpecW == InitW /\ [][NextW]_vars

(***************************************************************************)
(* SpecM: complete calls of CommentService.approve_comment, reject_comment *)
(* and delete_comment on one service object.  Each sleeps first and then   *)
(* finds, tests and changes the comment without a further await, so a call *)
(* is one step.  call and ret record the call (its comment_id as text) and *)
(* the bool it returned.                                                   *)
(***************************************************************************)
\* the comment_id arguments: the four mock comments and an id of no comment
CommentIds == 1..5

InitM == Constructed({1})

\* approve_comment(comment_id)
approve(comment_id) ==
    LET r == approve_comment(mock_comments, comment_id) IN
    /\ mock_comments' = r.comments
    /\ call' = Call("approve_comment", ToString(comment_id), NoValue)
    /\ ret' = Some(r.success)
    /\ UNCHANGED <<cacheVars, now, raised, hit, found, oldest, recent, set_at, last_value,
                   req, resp, thrVars, instVars, restVars>>

\* reject_comment(comment_id)
reject(comment_id) ==
    LET r == reject_comment(mock_comments, comment_id) IN
    /\ mock_comments' = r.comments
    /\ call' = Call("reject_comment", ToString(comment_id), NoValue)
    /\ ret' = Some(r.success)
    /\ UNCHANGED <<cacheVars, now, raised, hit, found, oldest, recent, set_at, last_value,
                   req, resp, thrVars, instVars, restVars>>

\* delete_comment(comment_id)
delete(comment_id) ==
    LET r == delete_comment(mock_comments, comment_id) IN
    /\ mock_comments' = r.comments
    /\ call' = Call("delete_comment", ToString(comment_id), NoValue)
    /\ ret' = Some(r.success)
    /\ UNCHANGED <<cacheVars, now, raised, hit, found, oldest, recent, set_at, last_value,
                   req, resp, thrVars, instVars, restVars>>

NextM ==
    \/ \E comment_id \in CommentIds : approve(comment_id)
    \/ \E comment_id \in CommentIds : reject(comment_id)
    \/ \E comment_id \in CommentIds : delete(comment_id)

SpecM == InitM /\ [][NextM]_vars

(***************************************************************************)
(* SpecR: requests pass through one RateLimitMiddleware.  dispatch has no  *)
(* await before call_next, so its bookkeeping is one step; `now` is        *)
(* time.time(), which does not run backwards here; the application's       *)
(* answer to a request that is passed on counts as 200.                    *)
(***************************************************************************)
InitR ==
    /\ Built({1})
    /\ ttl = 1
    /\ \E rpw \in 0..MaxRequests, w \in 1..MaxWindow : RateLimitMiddleware_init(rpw, w)

\* lines 29-51
dispatch(request) ==
    LET client_ip == get_client_ip(request)
        cleaned == Clean(RequestsOf(requests, client_ip), now)
    IN  /\ IF Len(cleaned) >= requests_per_window
           THEN /\ requests' = DictPut(requests, client_ip, cleaned)
                /\ limited' = [ip |-> client_ip, code |-> 429]
                /\ UNCHANGED admitted
           ELSE /\ requests' = DictPut(requests, client_ip, Append(cleaned, now))
                /\ limited' = [ip |-> client_ip, code |-> 200]
                /\ admitted' = DictPut(admitted, client_ip,
                                       Append(RequestsOf(admitted, client_ip), now))
        /\ UNCHANGED <<cacheVars, now, obsVars, svcVars, thrVars, instVars, comVars,
                       requests_per_window, window_seconds>>

NextR ==
    \/ \E request \in Requests : dispatch(request)
    \/ TickH

SpecR == InitR /\ [][NextR]_vars

(***************************************************************************)
(* SpecG: the comments module (src/api/comments.py).  cache =               *)
(* SWRCache(ttl=120, max_size=500) is created at import.  get_comments     *)
(* suspends only in CommentService.get_threaded_comments, which sleeps     *)
(* first; NoCodeBackendService.get_all_comments awaits nothing, so a       *)
(* request without a true thread_id, and update_comment_counts, run        *)
(* without suspension.  An exception of the cache leaves the handler and   *)
(* is answered with 500.                                                   *)
(***************************************************************************)
InitG == Constructed(1..MaxCap)

\* lines 29-64: the mock answer for thread_123
MockComments(param) ==
    [comments |-> <<[id |-> 1, replies |-> <<4>>], [id |-> 2, replies |-> <<>>]>>,
     thread_id |-> param]

\* lines 84-96 on mapping c and list o: the service call for the result, the
\* set under the key of the get, update_comment_counts, the return
get_comments_finish(c, o, tid) ==
    LET key == comments_cache_key(tid)
        result == CommentsResult(tid)
        s == set_result(c, o, key, result, now)
        u == update_comment_counts(now)
    IN  /\ cache' = s.cache
        /\ order' = s.order
        /\ IF s.raised # "none"
           THEN /\ resp' = Response("get_comments", 500, None, FALSE)
                /\ did' = Did("get_comments", FALSE, Some(key), None, Some(key),
                              Some(result), 1, 0)
                /\ UNCHANGED comment_update_store
           ELSE /\ resp' = Response("get_comments", 200, Some(result), FALSE)
                /\ did' = Did("get_comments", FALSE, Some(key), None, Some(key),
                              Some(result), 1, u.calls)
                /\ comment_update_store' = u.store

\* lines 26-96 up to the first suspension
get_comments(t, param) ==
    LET tid == NormalisedThreadId(param)
        key == comments_cache_key(tid)
        g == get_result(cache, order, key, now)
    IN  /\ req[t].pc = "idle"
        /\ IF IsMockThread(param)
           THEN /\ resp' = Response("get_comments", 200, Some(MockComments(param)), FALSE)
                /\ did' = Did("get_comments", FALSE, None, None, None, None, 0, 0)
                /\ UNCHANGED <<cache, order, req, comment_update_store>>
           ELSE IF g.raised # "none"
           THEN /\ cache' = g.cache
                /\ order' = g.order
                /\ resp' = Response("get_comments", 500, None, FALSE)
                /\ did' = Did("get_comments", FALSE, Some(key), None, None, None, 0, 0)
                /\ UNCHANGED <<req, comment_update_store>>
           ELSE IF g.ret # None
           THEN /\ cache' = g.cache
                /\ order' = g.order
                /\ resp' = Response("get_comments", 200, g.ret, FALSE)
                /\ did' = Did("get_comments", TRUE, Some(key), g.ret, None, None, 0, 0)
                /\ UNCHANGED <<req, comment_update_store>>
           ELSE IF ThreadIdTruthy(tid)
           THEN /\ cache' = g.cache
                /\ order' = g.order
                /\ req' = [req EXCEPT ![t] = FetchingComments(tid)]
                /\ UNCHANGED <<resp, did, comment_update_store>>
           ELSE /\ get_comments_finish(g.cache, g.order, tid)
                /\ UNCHANGED req
        /\ UNCHANGED <<ttl, max_size, now, obsVars, mock_comments, thrVars, instVars, raced, rlVars>>

\* lines 85-96 after the sleep of get_threaded_comments
get_comments_resume(t) ==
    /\ req[t].pc = "fetching_comments"
    /\ get_comments_finish(cache, order, req[t].thread_id)
    /\ req' = [req EXCEPT ![t] = Idle]
    /\ UNCHANGED <<ttl, max_size, now, obsVars, mock_comments, thrVars, instVars, raced, rlVars>>

NextG ==
    \/ \E t \in CommentsTasks, param \in ThreadIdParams : get_comments(t, param)
    \/ \E t \in CommentsTasks : get_comments_resume(t)
    \/ TickH

SpecG == InitG /\ [][NextG]_vars

(***************************************************************************)
(* SpecT: two threads call set on one instance without a lock.  The        *)
(* instance is first filled by complete calls; each thread then makes one  *)
(* call, entering while the cache is at capacity, and the threads run the  *)
(* lines of set in any interleaving.  call, ret, raised, hit, found,       *)
(* oldest and recent stay as constructed; what a thread did is read from   *)
(* thr.                                                                    *)
(***************************************************************************)
InitT == Constructed(1..MaxCap)

\* a complete set(key, value) before any thread has entered
fill(key, value) ==
    LET r == set_result(cache, order, key, value, now) IN
    /\ \A t \in Threads : thr[t].pc = "idle"
    /\ cache' = r.cache
    /\ order' = r.order
    /\ UNCHANGED <<ttl, max_size, now, obsVars, svcVars, thrVars, instVars, restVars>>

\* thread t enters set(key, value); no line of another call has run since
\* the cache was seen at capacity
set_enter(t, key, value) ==
    /\ thr[t].pc = "idle"
    /\ \A u \in Threads \ {t} : thr[u].pc \in {"idle", "l32"}
    /\ AtCapacity(cache)
    /\ thr' = [thr EXCEPT ![t] = Calling(key, value)]
    /\ UNCHANGED <<cacheVars, now, obsVars, svcVars, interleaved, instVars, restVars>>

\* thread t runs the line it is at
set_step(t) ==
    LET me == thr[t]
        r == set_line(me.pc, cache, order, me.key, me.value, me.oldest, now)
    IN  /\ me.pc \in Lines
        /\ cache' = r.cache
        /\ order' = r.order
        /\ thr' = [thr EXCEPT ![t] = [me EXCEPT !.pc = r.pc, !.oldest = r.oldest]]
        /\ interleaved' = (interleaved \/ \E u \in Threads \ {t} : thr[u].pc \in Inside)
        /\ UNCHANGED <<ttl, max_size, now, obsVars, svcVars, instVars, restVars>>

NextT ==
    \/ \E key \in Keys, value \in Values : fill(key, value)
    \/ \E t \in Threads, key \in Keys, value \in Values : set_enter(t, key, value)
    \/ \E t \in Threads : set_step(t)

SpecT == InitT /\ [][NextT]_vars

(***************************************************************************)
(* SpecI: complete get and set calls on the module-level instances of      *)
(* src/api/moderation.py and src/api/threads.py.  Both are built with the  *)
(* same arguments, which ttl and max_size hold; a call on instance i works *)
(* on the dict and the list that inst[i] refers to.                        *)
(***************************************************************************)
InitI == Constructed(1..MaxCap)

\* i.get(key)
inst_get(i, key) ==
    LET me == inst[i]
        r == get_result(heap[me.cache], heap[me.order], key, now)
    IN  /\ heap' = [heap EXCEPT ![me.cache] = r.cache, ![me.order] = r.order]
        /\ callee' = i
        /\ UNCHANGED <<cacheVars, now, obsVars, svcVars, thrVars, inst, restVars>>

\* i.set(key, value)
inst_set(i, key, value) ==
    LET me == inst[i]
        r == set_result(heap[me.cache], heap[me.order], key, value, now)
    IN  /\ heap' = [heap EXCEPT ![me.cache] = r.cache, ![me.order] = r.order]
        /\ callee' = i
        /\ UNCHANGED <<cacheVars, now, obsVars, svcVars, thrVars, inst, restVars>>

NextI ==
    \/ \E i \in Instances, key \in InstKeys : inst_get(i, key)
    \/ \E i \in Instances, key \in InstKeys, value \in InstValues : inst_set(i, key, value)
    \/ TickH

SpecI == InitI /\ [][NextI]_vars

(***************************************************************************)
(* Properties of one instance under complete calls (Spec).                 *)
(***************************************************************************)
\* the list without every occurrence of key
Without(l, key) == LET Keep(x) == x # key IN SelectSeq(l, Keep)

\* the last call was op and returned normally or not
LastCall(op) == call.op = op

\* C1: after any sequence of complete get / set / clear calls the keys of
\* `cache` are exactly the keys of `order`, and no key occurs twice in `order`.
C1_Bijection ==
    /\ Elems(order) = DOMAIN cache
    /\ \A k \in Keys : Count(order, k) <= 1

\* a get has purged an expired key and another key is still stored
C1_Witness ==
    /\ LastCall("get") /\ hit /\ ret = None
    /\ Len(order) >= 1
    /\ Elems(order) = DOMAIN cache

\* C2: with max_size = N >= 1 the mapping never holds more than N entries,
\* however many distinct keys were set and however time advanced.
C2_CapacityBound ==
    max_size >= 1 => Cardinality(DOMAIN cache) <= max_size

\* a set on a full cache, after time has advanced, evicted and left it full
C2_Witness ==
    /\ LastCall("set") /\ oldest # None
    /\ max_size >= 1 /\ Cardinality(DOMAIN cache) = max_size
    /\ now > 0

\* C3: get(k) returns a value only if that value is stored for k and its age
\* now - timestamp is < ttl; at age = ttl (or more) it returns None.
C3_TtlSafety ==
    LastCall("get") =>
        /\ ret # None =>
              /\ found # None
              /\ ret = Some(found[1].value)
              /\ now - found[1].timestamp < ttl
              /\ call.key \in DOMAIN cache
              /\ cache[call.key] = found[1]
        /\ (found # None /\ now - found[1].timestamp >= ttl) => ret = None

\* a get found its key at age exactly ttl and returned None
C3_Witness ==
    /\ LastCall("get") /\ found # None
    /\ now - found[1].timestamp = ttl
    /\ ret = None

\* a get has just purged an expired key (it was stored, nothing was returned)
JustPurged == LastCall("get") /\ hit /\ ret = None /\ raised = "none"

\* C4: a get(k) that finds k with age >= ttl removes k from `cache` and from
\* `order` and returns None; k stays absent (every get(k) returns None) until
\* a set(k, _); and the purged entry frees its slot: a set of a new key right
\* after the purge of a full cache evicts nothing.
C4_DestructiveRead ==
    [][ /\ (call'.op = "get" /\ call'.key \in DOMAIN cache
              /\ now - cache[call'.key].timestamp >= ttl)
           => /\ ret' = None
              /\ cache' = DictDel(cache, call'.key)
              /\ order' = Without(order, call'.key)
              /\ call'.key \notin DOMAIN cache'
              /\ ~Contains(order', call'.key)
        /\ \A k \in Keys :
              (k \notin DOMAIN cache /\ k \in DOMAIN cache')
                 => (call'.op = "set" /\ call'.key = k)
        /\ (call'.op = "get" /\ call'.key \notin DOMAIN cache)
           => (ret' = None /\ cache' = cache /\ order' = order)
        /\ (JustPurged /\ max_size >= 1
              /\ Cardinality(DOMAIN cache) = max_size - 1
              /\ call'.op = "set" /\ call'.key \notin DOMAIN cache)
           => /\ oldest' = None
              /\ raised' = "none"
              /\ DOMAIN cache' = DOMAIN cache \cup {call'.key}
      ]_vars

\* a get has purged an expired key from a cache that was full
C4_Witness ==
    /\ JustPurged
    /\ found # None /\ now - found[1].timestamp >= ttl
    /\ max_size >= 1 /\ Cardinality(DOMAIN cache) = max_size - 1
    /\ call.key \notin DOMAIN cache

\* every stored entry is fresh at clock value t
AllFresh(c, t) == \A k \in DOMAIN c : t - c[k].timestamp < ttl

\* C5: a set of a new key on a cache that holds N = max_size keys removes
\* exactly the front of the recency order; N keys remain, and with no entry
\* expired exactly those N keys are returned by get.
C5_LruVictim ==
    [][ (call'.op = "set" /\ call'.key \notin DOMAIN cache
           /\ max_size >= 1 /\ Cardinality(DOMAIN cache) = max_size)
        => /\ oldest' = Some(Head(order))
           /\ DOMAIN cache' = (DOMAIN cache \ {Head(order)}) \cup {call'.key}
           /\ Head(order) \notin DOMAIN cache'
           /\ Cardinality(DOMAIN cache') = max_size
           /\ \A k \in (DOMAIN cache) \ {Head(order)} : cache'[k] = cache[k]
           /\ AllFresh(cache', now')
              => \A k \in Keys :
                    (get_result(cache', order', k, now').ret # None)
                       <=> (k \in (DOMAIN cache \ {Head(order)}) \cup {call'.key})
      ]_vars

\* a set of a new key evicted from a cache holding at least two keys
C5_Witness ==
    /\ LastCall("set") /\ ~hit /\ oldest # None
    /\ max_size >= 2 /\ Cardinality(DOMAIN cache) = max_size
    /\ oldest[1] \notin DOMAIN cache
    /\ AllFresh(cache, now)

\* C6: a get(k) that returns a value returns the stored one, moves k to the
\* back of `order`, keeps the other keys in their relative order and leaves
\* `cache` as it is; so with max_size = 2 and B in front of A after get(A),
\* set(C, _) evicts B and keeps A.
C6_RecencyOnRead ==
    [][ /\ (call'.op = "get" /\ ret' # None)
           => /\ call'.key \in DOMAIN cache
              /\ ret' = Some(cache[call'.key].value)
              /\ cache' = cache
              /\ order' = Append(Without(order, call'.key), call'.key)
        /\ (max_size = 2 /\ call = Call("get", "A", NoValue) /\ ret # None
              /\ order = <<"B", "A">>
              /\ call'.op = "set" /\ call'.key = "C")
           => /\ oldest' = Some("B")
              /\ DOMAIN cache' = {"A", "C"}
              /\ order' = <<"A", "C">>
      ]_vars

\* A was stored before B, and a get(A) hit has put A behind B
C6_Witness ==
    /\ max_size = 2
    /\ call = Call("get", "A", NoValue) /\ ret # None
    /\ order = <<"B", "A">>
    /\ cache["A"].timestamp < cache["B"].timestamp

\* C7: set(k, v2) on a key that is already stored keeps one entry for k and
\* one occurrence of k in `order`, at the back; the entry holds v2 and an
\* immediate get(k) returns v2.
C7_Overwrite ==
    [][ (call'.op = "set" /\ call'.key \in DOMAIN cache)
        => /\ DOMAIN cache' = DOMAIN cache
           /\ cache'[call'.key].value = call'.value
           /\ Count(order', call'.key) = 1
           /\ order'[Len(order')] = call'.key
           /\ get_result(cache', order', call'.key, now').ret = Some(call'.value)
      ]_vars

\* a stored key was set again, with another key stored beside it
C7_Witness ==
    /\ LastCall("set") /\ hit
    /\ Len(order) >= 2
    /\ order[Len(order)] = call.key
    /\ cache[call.key].value = call.value

\* C8: clear() removes all entries and resets the recency order to empty.
C8_ClearEmpties ==
    LastCall("clear") => (DOMAIN cache = {} /\ order = <<>>)

\* C9: with max_size >= 1 no get and no set raises.
C9_Totality ==
    (max_size >= 1 /\ (LastCall("get") \/ LastCall("set"))) => raised = "none"

\* a set has popped the front of a non-empty order and a get can then still
\* find every stored key in the order
C9_Witness ==
    /\ max_size >= 1
    /\ LastCall("set") /\ oldest # None /\ raised = "none"
    /\ \A k \in DOMAIN cache : Contains(order, k)

(***************************************************************************)
(* Properties of the moderation handlers (SpecH).                          *)
(***************************************************************************)
\* every entry a get would return now holds what the handler would compute
\* from the service now
Coherent ==
    \A status \in Statuses, limit \in Limits, offset \in Offsets :
        LET key == cache_key(status, limit, offset) IN
        (key \in DOMAIN cache /\ IsFresh(cache[key].timestamp, now))
           => cache[key].value =
                 ModerationResult(FetchComments(mock_comments, status, limit, offset),
                                  status, limit, offset)

\* C10: once a mutating handler has changed the service and answered, the
\* module's cache serves no result computed before the change: every entry a
\* read could hit agrees with the service as it is after the change.
C10_InvalidationAfterMutation ==
    (resp.handler = "moderate_comment" /\ resp.applied) => Coherent

\* C14: ttl runs from the set, not from the last access.  After every step
\* the stored timestamp of each key is the clock value of its last set, so a
\* get that returns the value leaves it as it was; and a get(k) at or after
\* that clock value plus ttl returns None, whatever hits came before.
C14_TtlFromInsertion ==
    [][/\ \A k \in DOMAIN cache' :
              k \in DOMAIN set_at' /\ cache'[k].timestamp = set_at'[k]
       /\ \A k \in DOMAIN set_at :
              (call' = Call("get", k, NoValue) /\ now >= set_at[k] + ttl) => ret' = None
       /\ \A k \in DOMAIN cache :
              (call' = Call("get", k, NoValue) /\ ret' # None)
                  => cache'[k].timestamp = cache[k].timestamp]_vars

\* a get returned the value of an entry set at an earlier clock value, and the
\* entry still carries the clock value of its set
C14_Witness ==
    /\ LastCall("get")
    /\ ret # None
    /\ call.key \in DOMAIN cache
    /\ cache[call.key].timestamp < now
    /\ set_at[call.key] < now

\* C15: order lists the keys of the mapping by their last successful access
\* (a set of the key, or a get that returned its value), the least recently
\* accessed key at the front.
C15_RecencyOrder ==
    /\ order = recent
    /\ Elems(recent) = DOMAIN cache

\* two keys, the one at the front set after the one at the back: the order is
\* that of the accesses, not that of the sets
C15_Witness ==
    /\ LastCall("get")
    /\ ret # None
    /\ Len(order) = 2
    /\ order[2] = call.key
    /\ set_at[order[1]] > set_at[order[2]]

\* C16: a get of a key that is not in the mapping returns None, raises
\* nothing and leaves the mapping, with every timestamp, and the order as
\* they were.
C16_GetAbsent ==
    [][\A k \in Keys \ DOMAIN cache :
          call' = Call("get", k, NoValue)
              => /\ ret' = None
                 /\ raised' = "none"
                 /\ cache' = cache
                 /\ order' = order]_vars

\* a get missed on an instance that holds other keys
C16_Witness ==
    /\ LastCall("get")
    /\ ~hit
    /\ ret = None
    /\ raised = "none"
    /\ call.key \notin DOMAIN cache
    /\ order # <<>>

\* C17: ttl and max_size keep the values of the construction: no get, set or
\* clear changes them.
C17_Immutable ==
    [][ttl' = ttl /\ max_size' = max_size]_vars

\* the last call is a clear, on a full instance that holds an expired entry
C17_Witness ==
    /\ LastCall("clear")
    /\ max_size >= 1
    /\ Cardinality(DOMAIN cache) = max_size
    /\ \E k \in DOMAIN cache : now - cache[k].timestamp >= ttl

\* C18: a set of a key that is in the mapping, fresh or expired, evicts
\* nothing, at capacity or not: the mapping keeps its keys and every other
\* entry, the key gets the new value and the clock value of the call, which
\* makes it fresh for the next ttl clock values and no longer, and the key
\* moves to the end of order.
C18_SetExisting ==
    [][\A k \in DOMAIN cache, v \in Values :
          call' = Call("set", k, v)
              => /\ raised' = "none"
                 /\ oldest' = None
                 /\ DOMAIN cache' = DOMAIN cache
                 /\ \A j \in DOMAIN cache \ {k} : cache'[j] = cache[j]
                 /\ cache'[k] = Entry(v, now)
                 /\ \A d \in 0..(ttl - 1) : IsFresh(cache'[k].timestamp, now + d)
                 /\ ~IsFresh(cache'[k].timestamp, now + ttl)
                 /\ order' = Append(Without(order, k), k)]_vars

\* a stored key was set again on a full instance of two keys: it is at the
\* end of order, newer than the key at the front, and nothing was evicted
C18_Witness ==
    /\ LastCall("set")
    /\ hit
    /\ oldest = None
    /\ max_size = 2
    /\ Len(order) = 2
    /\ order[2] = call.key
    /\ cache[order[1]].timestamp < cache[order[2]].timestamp

\* the step is a set of k, and what it removes is: with max_size or more
\* keys stored, the key at the front of order and no other, from the mapping
\* and from order; with fewer keys stored, nothing; and every other key that
\* stays keeps its value and its timestamp
RemovesAtMostOne(k) ==
    /\ IF Cardinality(DOMAIN cache) >= max_size
       THEN /\ order # <<>>
            /\ DOMAIN cache \ DOMAIN cache' = {Head(order)}
            /\ Head(order) \notin Elems(order')
            /\ Elems(Tail(order)) \subseteq Elems(order')
       ELSE /\ DOMAIN cache \subseteq DOMAIN cache'
            /\ Elems(order) \subseteq Elems(order')
    /\ \A j \in (DOMAIN cache \cap DOMAIN cache') \ {k} : cache'[j] = cache[j]

C20_RemovalCauses ==
    [][\A k \in DOMAIN cache \ DOMAIN cache' :
          \/ call'.op = "clear"
          \/ /\ call' = Call("get", k, NoValue)
             /\ now - cache[k].timestamp >= ttl
          \/ /\ call'.op = "set"
             /\ call'.key # k
             /\ call'.key \notin DOMAIN cache
             /\ Cardinality(DOMAIN cache) >= max_size
             /\ order # <<>>
             /\ Head(order) = k]_vars

\* a get purged its expired key and left the other key, expired as well, in
\* the mapping
C20_Witness ==
    /\ JustPurged
    /\ call.key \notin DOMAIN cache
    /\ Len(order) = 1
    /\ now - cache[order[1]].timestamp >= ttl

\* C21: expiry is lazy.  Time passing changes neither the mapping nor the
\* order; an expired entry stays stored as it is unless the step is a get
\* of its key, a set of its key, or a set that evicts it; and a get of an
\* expired key returns None and leaves the mapping without the key, all
\* other entries as they were: nothing is computed or stored in its place.
C21_LazyExpiry ==
    [][/\ call'.op = "tick" => (cache' = cache /\ order' = order)
       /\ \A k \in DOMAIN cache :
              now - cache[k].timestamp >= ttl
                  => \/ k \in DOMAIN cache' /\ cache'[k] = cache[k]
                     \/ call' = Call("get", k, NoValue)
                     \/ call'.op = "set" /\ (call'.key = k \/ oldest' = Some(k))
       /\ \A k \in DOMAIN cache :
              (call' = Call("get", k, NoValue) /\ now - cache[k].timestamp >= ttl)
                  => /\ ret' = None
                     /\ cache' = DictDel(cache, k)
                     /\ order' = Without(order, k)]_vars

\* time has passed and an entry that expired is still in the mapping and in
\* the order
C21_Witness ==
    /\ LastCall("tick")
    /\ \E k \in DOMAIN cache :
           /\ now - cache[k].timestamp >= ttl
           /\ Contains(order, k)
           /\ set_at[k] + ttl <= now

\* C23: when the moderation handlers interleave at their awaits only, with
\* get and set each one step, the keys of `cache` are exactly the keys of
\* `order`, no key occurs twice in `order`, and the mapping holds at most
\* max_size entries, in every reachable state.
C23_CooperativeAtomicity ==
    /\ Elems(order) = DOMAIN cache
    /\ \A i, j \in 1..Len(order) : order[i] = order[j] => i = j
    /\ max_size >= 1 => Cardinality(DOMAIN cache) <= max_size

\* one reader is suspended in its service call for a key that another
\* reader has stored meanwhile, and the cache is full
C23_Witness ==
    \E t, u \in Tasks :
        /\ t # u
        /\ req[t].pc = "fetching"
        /\ req[u].pc = "idle"
        /\ resp.handler = "get_comments_for_moderation" /\ resp.code = 200
        /\ cache_key(req[t].status, req[t].limit, req[t].offset) \in DOMAIN cache
        /\ Cardinality(DOMAIN cache) = max_size

\* C24: when two requests of the read handler miss the same key before
\* either stores, both call the service and both call set: each suspended
\* request leaves its service call by storing what the service returns now.
\* After the later set the mapping holds one entry for the key, with the
\* value of the later set, and the key occurs once in the recency order.
C24_DoubleMiss ==
    [][\A t \in Tasks :
          (req[t].pc = "fetching" /\ req'[t] # req[t]) =>
              LET r == req[t]
                  key == cache_key(r.status, r.limit, r.offset)
                  result == ModerationResult(
                                FetchComments(mock_comments, r.status, r.limit, r.offset),
                                r.status, r.limit, r.offset)
              IN  /\ req'[t] = Idle
                  /\ \A u \in Tasks \ {t} : req'[u] = req[u]
                  /\ key \in DOMAIN cache'
                  /\ cache'[key] = [value |-> result, timestamp |-> now]
                  /\ resp' = Response("get_comments_for_moderation", 200, Some(result), FALSE)
                  /\ Count(order', key) = 1
                  /\ order'[Len(order')] = key
                  /\ raced' = (key \in DOMAIN cache)
                  /\ raced' => DOMAIN cache' = DOMAIN cache]_vars

\* the later of two racing requests has just stored its result over the
\* earlier one's, after a moderation has changed the service
C24_Witness ==
    /\ raced
    /\ resp.code = 200
    /\ \E id \in DOMAIN mock_comments : mock_comments[id] # InitialComments[id]
    /\ \A t \in Tasks : req[t].pc = "idle"

\* C26: eviction does not look at freshness.  set of a new key evicts exactly
\* when the mapping, expired entries included, holds max_size entries or
\* more, and then it evicts the key at the front of `order`, fresh or not,
\* and keeps every other entry, expired or not.
C26_EvictionIgnoresFreshness ==
    [][max_size >= 1 =>
          \A k \in Keys \ DOMAIN cache, v \in Values :
              call' = Call("set", k, v) =>
                  IF Cardinality(DOMAIN cache) >= max_size
                  THEN /\ oldest' = Some(order[1])
                       /\ found' = Some(cache[order[1]])
                       /\ DOMAIN cache' = (DOMAIN cache \ {order[1]}) \cup {k}
                       /\ \A j \in DOMAIN cache \ {order[1]} : cache'[j] = cache[j]
                  ELSE /\ oldest' = None
                       /\ DOMAIN cache' = DOMAIN cache \cup {k}]_vars

\* a set of a new key on a full instance has evicted a fresh entry and has
\* kept an expired one
C26_Witness ==
    /\ LastCall("set")
    /\ oldest # None /\ found # None
    /\ IsFresh(found[1].timestamp, now)
    /\ \E j \in DOMAIN cache : ~IsFresh(cache[j].timestamp, now)

\* C27: whenever get(k) returns a value, it is the value passed to the most
\* recent set(k, _), and k has not left the mapping (by eviction, by an
\* expiry purge or by clear) since that set; so a value that a later
\* set(k, _) replaced is not returned again.
C27_LatestValueRead ==
    [][\A k \in Keys :
          (call' = Call("get", k, NoValue) /\ ret' # None)
             => /\ k \in DOMAIN last_value
                /\ ret' = Some(last_value[k])
                /\ last_value' = last_value]_vars

\* a get has returned the value of its key's last set, on an instance that
\* holds a second key whose last set was at an earlier clock value
C27_Witness ==
    /\ LastCall("get") /\ ret # None
    /\ ret = Some(last_value[call.key])
    /\ Len(order) = 2
    /\ set_at[call.key] > set_at[order[1]]

\* C28: a mutation handler whose service call changed the service answers
\* with its success response, and answers with an error (4xx, 5xx) only when
\* the service is as it was.
C28_MutationsReport ==
    [][\A t \in Tasks :
          (req[t].pc = "moderating" /\ req'[t].pc = "idle")
             => /\ mock_comments' # mock_comments => resp'.code = 200
                /\ resp'.code >= 400 => mock_comments' = mock_comments]_vars

(***************************************************************************)
(* Properties of the read handlers' cache keys (SpecW).                    *)
(***************************************************************************)
\* C11: two requests whose results differ never share a cache key: whatever
\* the widget cache holds under the key of a request is the result that this
\* request computes, for every thread_id (absent, "", "default", "t1").
C11_KeyInjectivity ==
    \A thread_id \in ThreadIdArgs :
        widget_cache_key(thread_id) \in DOMAIN cache
            => cache[widget_cache_key(thread_id)].value = WidgetConfig(thread_id)

(***************************************************************************)
(* Properties of set under unsynchronised threads (SpecT).                 *)
(***************************************************************************)
\* no thread is at a line of set
Quiescent == \A t \in Threads : thr[t].pc \notin Lines

\* a key twice in order, order and mapping with different keys, or more keys
\* than max_size
Inconsistent ==
    \/ \E k \in Keys : Count(order, k) > 1
    \/ Elems(order) # DOMAIN cache
    \/ Cardinality(DOMAIN cache) > max_size

SomeRaised == \E t \in Threads : thr[t].pc \in Exceptions

\* C12: two set calls on a full cache whose lines interleave can leave the
\* mapping and the order inconsistent or raise (C12_Witness is such a state);
\* and it is the interleaving that does it: when no thread ran a line while
\* another was inside set, the calls raise nothing and leave a consistent
\* instance.
C12_InterleavingHazard ==
    (Quiescent /\ (Inconsistent \/ SomeRaised)) => interleaved

C12_Witness ==
    /\ \A t \in Threads : thr[t].pc \in {"done"} \cup Exceptions
    /\ interleaved
    /\ Inconsistent

(***************************************************************************)
(* Properties of the module-level instances (SpecI).                       *)
(***************************************************************************)
\* the mapping, the order, ttl and max_size of instance i
Attributes(i) ==
    [cache |-> heap[inst[i].cache], order |-> heap[inst[i].order],
     ttl |-> inst[i].ttl, max_size |-> inst[i].max_size]

\* C13: a get or a set on one instance leaves the mapping, the recency order,
\* ttl and max_size of every other instance as they were.
C13_InstanceIndependence ==
    [][\A j \in Instances \ {callee'} : Attributes(j)' = Attributes(j)]_vars

\* both instances hold entries, not the same ones, and the last call was on
\* the threads instance
C13_Witness ==
    /\ callee = "threads"
    /\ Attributes("threads").order # <<>>
    /\ Attributes("moderation").order # <<>>
    /\ Attributes("moderation").order # Attributes("threads").order

(***************************************************************************)
(* Properties of the cache-aside protocol of get_comments (SpecG).         *)
(***************************************************************************)
\* the last request was a get_comments that asked the cache and answered 200
Answered == did.handler = "get_comments" /\ did.got # None /\ resp.code = 200

\* what a hit does: no call of the service, no set, the cached value returned
HitProtocol ==
    /\ did.before + did.after = 0
    /\ did.put = None
    /\ did.cached # None
    /\ resp.body = did.cached

\* what a miss does around its set: one call of the service before it, the
\* key of the get, the value that is returned
MissProtocol ==
    /\ did.before = 1
    /\ did.put = did.got
    /\ did.stored # None
    /\ resp.body = did.stored

C25_NoStaleWriteBack ==
    /\ Coherent
    /\ (resp.handler = "get_comments_for_moderation" /\ resp.code = 200)
          => resp.body[1].comments =
                FetchComments(mock_comments,
                              IF resp.body[1].status = "pending" THEN None
                              ELSE Some(resp.body[1].status),
                              resp.body[1].limit, resp.body[1].offset)

\* a reader is suspended in its service call, which it entered after a miss;
\* a mutating handler has since changed the service, cleared the cache and
\* answered
C25_Witness ==
    /\ resp = Response("moderate_comment", 200, None, TRUE)
    /\ \E id \in DOMAIN mock_comments : mock_comments[id] # InitialComments[id]
    /\ \E t \in Tasks : req[t].pc = "fetching"
    /\ \A t \in Tasks : req[t].pc # "moderating"
    /\ DOMAIN cache = {}

(***************************************************************************)
(* Properties of the moderation state machine (SpecM).                     *)
(***************************************************************************)
\* the step is a call of approve_comment or reject_comment (op) on id: on a
\* pending comment it writes `to` and returns True, on any other id it
\* returns False and changes no comment
Moderates(op, id, to) ==
    call' = Call(op, ToString(id), NoValue) =>
        IF id \in DOMAIN mock_comments /\ mock_comments[id] = PENDING
        THEN /\ ret' = Some(TRUE)
             /\ DOMAIN mock_comments' = DOMAIN mock_comments
             /\ mock_comments'[id] = to
             /\ \A i \in DOMAIN mock_comments \ {id} : mock_comments'[i] = mock_comments[i]
        ELSE /\ ret' = Some(FALSE)
             /\ mock_comments' = mock_comments

\* C29: approve_comment and reject_comment change is_approved only from 0, to
\* 1 and to 2, and return True exactly then; on a comment that is approved
\* or rejected, or on an id of no comment, they return False and change
\* nothing.  So no call of either moves a comment that is approved or
\* rejected to another state.
C29_ModerationStateMachine ==
    [][/\ \A id \in CommentIds :
              /\ Moderates("approve_comment", id, APPROVED)
              /\ Moderates("reject_comment", id, REJECTED)
       /\ call'.op \in {"approve_comment", "reject_comment"}
             => \A i \in DOMAIN mock_comments :
                    mock_comments[i] \in {APPROVED, REJECTED}
                       => (i \in DOMAIN mock_comments' /\ mock_comments'[i] = mock_comments[i])]_vars

\* approve_comment was called on a comment that an earlier call had rejected:
\* it returned False and the comment is still rejected
C29_Witness ==
    \E id \in DOMAIN mock_comments :
        /\ call = Call("approve_comment", ToString(id), NoValue)
        /\ ret = Some(FALSE)
        /\ mock_comments[id] = REJECTED

(***************************************************************************)
(* Properties of the rate limiter (SpecR).                                 *)
(***************************************************************************)
\* the number of the times of l that lie in the span from s to before
\* s + window_seconds
InSpan(l, s) ==
    Cardinality({i \in 1..Len(l) : l[i] >= s /\ l[i] - s < window_seconds})

\* the number of the times of l that are younger than window_seconds now
Younger(l) == Cardinality({i \in 1..Len(l) : now - l[i] < window_seconds})

\* C30: for each client IP at most requests_per_window of the requests
\* arriving within any span shorter than window_seconds are passed on; a
\* request is answered 429 exactly when that many passed requests of its IP
\* are younger than window_seconds, and then it is not recorded; and a
\* request changes the record of no other IP.
C30_RateLimitWindow ==
    [][/\ \A ip \in DOMAIN admitted', s \in 0..MaxTime :
              InSpan(admitted'[ip], s) <= requests_per_window
       /\ \A ip \in DOMAIN admitted' :
              RequestsOf(admitted, ip) # admitted'[ip]
                 => /\ admitted'[ip] = Append(RequestsOf(admitted, ip), now)
                    /\ limited' = [ip |-> ip, code |-> 200]
                    /\ Younger(RequestsOf(admitted, ip)) < requests_per_window
                    /\ requests'[ip] = Append(Clean(RequestsOf(requests, ip), now), now)
       /\ (now' = now /\ limited'.code = 429)
             => /\ Younger(RequestsOf(admitted, limited'.ip)) >= requests_per_window
                /\ admitted' = admitted
                /\ requests'[limited'.ip] = Clean(RequestsOf(requests, limited'.ip), now)
                /\ Count(requests'[limited'.ip], now)
                      = Count(RequestsOf(requests, limited'.ip), now)
       /\ \A ip \in DOMAIN requests' :
              (now' = now /\ ip # limited'.ip)
                 => /\ ip \in DOMAIN requests /\ requests'[ip] = requests[ip]
                    /\ RequestsOf(admitted', ip) = RequestsOf(admitted, ip)]_vars

\* a request of "a" was answered 429 at a clock value at which "b", named
\* by an x-forwarded-for header or by the peer address, was passed on, after
\* an earlier timestamp of "a" had left the window
C30_Witness ==
    /\ limited = [ip |-> "a", code |-> 429]
    /\ requests_per_window >= 1
    /\ "a" \in DOMAIN admitted /\ "b" \in DOMAIN admitted
    /\ Younger(admitted["a"]) = requests_per_window
    /\ Len(admitted["a"]) > requests_per_window
    /\ admitted["b"][Len(admitted["b"])] = now

=============================================================================
